---- MODULE Spec2Model ----
(***************************************************************************)
(* Model of apply-null-fixes.py: a table of (file, pattern, replacement)   *)
(* rules is grouped by file; every file is read, each of its rules is      *)
(* attempted once with re.sub(..., count=1), the file is written back when *)
(* at least one rule changed the buffer, and `npm run build` is run last.  *)
(*                                                                         *)
(* Text is a sequence of one-character strings.  A pattern is the source   *)
(* text of a regular expression of the only kind the table uses: literal   *)
(* characters, with the metacharacters, the quote and the newline written *)
(* as backslash escapes.  A replacement is a template; the table's hold no *)
(* backslash, and neither do the small-alphabet ones.                      *)
(***************************************************************************)
EXTENDS Integers, Sequences, FiniteSets, TLC

VARIABLES
    replacements,      \* the rule table: sequence of [file, pattern, repl]
    files_to_process,  \* the rules by file: sequence of [file, patterns]
    disk,              \* file name -> text stored in the file
    present,           \* the files that exist
    pc,                \* position of the script
    fileIdx,           \* index of the current entry of files_to_process
    ruleIdx,           \* index of the next rule of the current file
    content,           \* local of apply_replacements
    original_content,  \* local of apply_replacements
    changes_made,      \* local of apply_replacements
    report,            \* file name -> what was printed for the file
    buildCount,        \* number of calls of subprocess.run
    buildStatus,       \* outcome of the build
    run,               \* number of the current execution of the script
    disk0,             \* history: disk when the current execution started
    hist,              \* history: file name -> what happened to the file
    prev               \* history: disk and report left by the previous execution

vars == <<replacements, files_to_process, disk, present, pc, fileIdx, ruleIdx, content,
          original_content, changes_made, report, buildCount, buildStatus,
          run, disk0, hist, prev>>

----------------------------------------------------------------------------
(* Bounds of the small-alphabet inputs *)

MaxLen == 3
MaxRules == 2
MaxRuns == 2

Files == {"f1", "f2"}
Sigma == {"a", "("}

SeqsUpTo(S, n) == UNION {[1..k -> S] : k \in 0..n}

----------------------------------------------------------------------------
(* The table `replacements` of the script, character by character *)

\* Rule 1, line 13: the pattern as the raw string holds it.
Pat01 ==
    <<"i", "f", " ", "\\", "(", "d", "a", "t", "a", "\\", ".", "t", "i", "t", "l", "e", " ",
      "!", "=", "=", " ", "u", "n", "d", "e", "f", "i", "n", "e", "d", " ", "&", "&", " ", "t",
      "y", "p", "e", "o", "f", " ", "d", "a", "t", "a", "\\", ".", "t", "i", "t", "l", "e",
      " ", "=", "=", "=", " ", "\\", "'", "s", "t", "r", "i", "n", "g", "\\", "'", "\\", ")",
      " ", "\\", "{">>

\* Rule 1, line 14: the replacement.
Rep01 ==
    <<"i", "f", " ", "(", "d", "a", "t", "a", ".", "t", "i", "t", "l", "e", " ", "!", "=", "=",
      " ", "u", "n", "d", "e", "f", "i", "n", "e", "d", " ", "&", "&", " ", "d", "a", "t", "a",
      ".", "t", "i", "t", "l", "e", " ", "!", "=", "=", " ", "n", "u", "l", "l", " ", "&", "&",
      " ", "t", "y", "p", "e", "o", "f", " ", "d", "a", "t", "a", ".", "t", "i", "t", "l", "e",
      " ", "=", "=", "=", " ", "'", "s", "t", "r", "i", "n", "g", "'", ")", " ", "{">>

\* Rule 2, line 17: the pattern as the raw string holds it.
Pat02 ==
    <<"i", "f", " ", "\\", "(", "!", "d", "a", "t", "a", "\\", ".", "t", "i", "t", "l", "e",
      "\\", ".", "t", "r", "i", "m", "\\", "(", "\\", ")", "\\", ")", " ", "\\", "{">>

\* Rule 2, line 18: the replacement.
Rep02 ==
    <<"i", "f", " ", "(", "d", "a", "t", "a", ".", "t", "i", "t", "l", "e", ".", "t", "r", "i",
      "m", "(", ")", " ", "=", "=", "=", " ", "'", "'", ")", " ", "{">>

\* Rule 3, line 21: the pattern as the raw string holds it.
Pat03 ==
    <<"i", "f", " ", "\\", "(", "d", "a", "t", "a", "\\", ".", "d", "e", "s", "c", "r", "i",
      "p", "t", "i", "o", "n", " ", "!", "=", "=", " ", "u", "n", "d", "e", "f", "i", "n", "e",
      "d", " ", "&", "&", " ", "t", "y", "p", "e", "o", "f", " ", "d", "a", "t", "a", "\\",
      ".", "d", "e", "s", "c", "r", "i", "p", "t", "i", "o", "n", " ", "=", "=", "=", " ",
      "\\", "'", "s", "t", "r", "i", "n", "g", "\\", "'", "\\", ")", " ", "\\", "{">>

\* Rule 3, line 22: the replacement.
Rep03 ==
    <<"i", "f", " ", "(", "d", "a", "t", "a", ".", "d", "e", "s", "c", "r", "i", "p", "t", "i",
      "o", "n", " ", "!", "=", "=", " ", "u", "n", "d", "e", "f", "i", "n", "e", "d", " ", "&",
      "&", " ", "d", "a", "t", "a", ".", "d", "e", "s", "c", "r", "i", "p", "t", "i", "o", "n",
      " ", "!", "=", "=", " ", "n", "u", "l", "l", " ", "&", "&", " ", "t", "y", "p", "e", "o",
      "f", " ", "d", "a", "t", "a", ".", "d", "e", "s", "c", "r", "i", "p", "t", "i", "o", "n",
      " ", "=", "=", "=", " ", "'", "s", "t", "r", "i", "n", "g", "'", ")", " ", "{">>

\* Rule 4, line 25: the pattern as the raw string holds it.
Pat04 ==
    <<"i", "f", " ", "\\", "(", "!", "d", "a", "t", "a", "\\", ".", "d", "e", "s", "c", "r",
      "i", "p", "t", "i", "o", "n", "\\", ".", "t", "r", "i", "m", "\\", "(", "\\", ")", "\\",
      ")", " ", "\\", "{">>

\* Rule 4, line 26: the replacement.
Rep04 ==
    <<"i", "f", " ", "(", "d", "a", "t", "a", ".", "d", "e", "s", "c", "r", "i", "p", "t", "i",
      "o", "n", ".", "t", "r", "i", "m", "(", ")", " ", "=", "=", "=", " ", "'", "'", ")", " ",
      "{">>

\* Rule 5, line 29: the pattern as the raw string holds it.
Pat05 ==
    <<"i", "f", " ", "\\", "(", "d", "a", "t", "a", "\\", ".", "s", "l", "u", "g", " ", "!",
      "=", "=", " ", "u", "n", "d", "e", "f", "i", "n", "e", "d", " ", "&", "&", " ", "t", "y",
      "p", "e", "o", "f", " ", "d", "a", "t", "a", "\\", ".", "s", "l", "u", "g", " ", "=",
      "=", "=", " ", "\\", "'", "s", "t", "r", "i", "n", "g", "\\", "'", "\\", ")", " ", "\\",
      "{">>

\* Rule 5, line 30: the replacement.
Rep05 ==
    <<"i", "f", " ", "(", "d", "a", "t", "a", ".", "s", "l", "u", "g", " ", "!", "=", "=", " ",
      "u", "n", "d", "e", "f", "i", "n", "e", "d", " ", "&", "&", " ", "d", "a", "t", "a", ".",
      "s", "l", "u", "g", " ", "!", "=", "=", " ", "n", "u", "l", "l", " ", "&", "&", " ", "t",
      "y", "p", "e", "o", "f", " ", "d", "a", "t", "a", ".", "s", "l", "u", "g", " ", "=", "=",
      "=", " ", "'", "s", "t", "r", "i", "n", "g", "'", ")", " ", "{">>

\* Rule 6, line 33: the pattern as the raw string holds it.
Pat06 ==
    <<"i", "f", " ", "\\", "(", "!", "d", "a", "t", "a", "\\", ".", "s", "l", "u", "g", "\\",
      ".", "t", "r", "i", "m", "\\", "(", "\\", ")", "\\", ")", " ", "\\", "{">>

\* Rule 6, line 34: the replacement.
Rep06 ==
    <<"i", "f", " ", "(", "d", "a", "t", "a", ".", "s", "l", "u", "g", ".", "t", "r", "i", "m",
      "(", ")", " ", "=", "=", "=", " ", "'", "'", ")", " ", "{">>

\* Rule 7, line 37: the pattern as the raw string holds it.
Pat07 ==
    <<"i", "f", " ", "\\", "(", "d", "a", "t", "a", "\\", ".", "i", "d", " ", "!", "=", "=",
      " ", "u", "n", "d", "e", "f", "i", "n", "e", "d", " ", "&", "&", " ", "t", "y", "p", "e",
      "o", "f", " ", "d", "a", "t", "a", "\\", ".", "i", "d", " ", "=", "=", "=", " ", "\\",
      "'", "s", "t", "r", "i", "n", "g", "\\", "'", "\\", ")", " ", "\\", "{">>

\* Rule 7, line 38: the replacement.
Rep07 ==
    <<"i", "f", " ", "(", "d", "a", "t", "a", ".", "i", "d", " ", "!", "=", "=", " ", "u", "n",
      "d", "e", "f", "i", "n", "e", "d", " ", "&", "&", " ", "d", "a", "t", "a", ".", "i", "d",
      " ", "!", "=", "=", " ", "n", "u", "l", "l", " ", "&", "&", " ", "t", "y", "p", "e", "o",
      "f", " ", "d", "a", "t", "a", ".", "i", "d", " ", "=", "=", "=", " ", "'", "s", "t", "r",
      "i", "n", "g", "'", ")", " ", "{">>

\* Rule 8, line 41: the pattern as the raw string holds it.
Pat08 ==
    <<"i", "f", " ", "\\", "(", "!", "d", "a", "t", "a", "\\", ".", "i", "d", "\\", ".", "t",
      "r", "i", "m", "\\", "(", "\\", ")", "\\", ")", " ", "\\", "{">>

\* Rule 8, line 42: the replacement.
Rep08 ==
    <<"i", "f", " ", "(", "d", "a", "t", "a", ".", "i", "d", ".", "t", "r", "i", "m", "(", ")",
      " ", "=", "=", "=", " ", "'", "'", ")", " ", "{">>

\* Rule 9, line 46: the pattern as the raw string holds it.
Pat09 ==
    <<" ", " ", "i", "f", " ", "\\", "(", "r", "e", "s", "o", "l", "v", "e", "d", "U", "r",
      "l", "\\", ")", " ", "\\", "{", "\\", "n", " ", " ", " ", " ", "/", "/", " ", "U", "s",
      "e", " ", "t", "h", "e", " ", "a", "c", "t", "u", "a", "l", " ", "r", "e", "s", "o", "l",
      "v", "e", "d", " ", "U", "R", "L">>

\* Rule 9, line 47: the replacement.
Rep09 ==
    <<" ", " ", "/", "/", " ", "P", "a", "t", "t", "e", "r", "n", ":", " ", "E", "x", "p", "l",
      "i", "c", "i", "t", " ", "n", "u", "l", "l", "/", "u", "n", "d", "e", "f", "i", "n", "e",
      "d", " ", "c", "h", "e", "c", "k", " ", "f", "o", "r", " ", "o", "p", "t", "i", "o", "n",
      "a", "l", " ", "p", "a", "r", "a", "m", "e", "t", "e", "r", "s", "\n", " ", " ", "i",
      "f", " ", "(", "r", "e", "s", "o", "l", "v", "e", "d", "U", "r", "l", " ", "!", "=", "=",
      " ", "u", "n", "d", "e", "f", "i", "n", "e", "d", " ", "&", "&", " ", "r", "e", "s", "o",
      "l", "v", "e", "d", "U", "r", "l", " ", "!", "=", "=", " ", "n", "u", "l", "l", ")", " ",
      "{", "\n", " ", " ", " ", " ", "/", "/", " ", "U", "s", "e", " ", "t", "h", "e", " ",
      "a", "c", "t", "u", "a", "l", " ", "r", "e", "s", "o", "l", "v", "e", "d", " ", "U", "R",
      "L">>

\* Rule 10, line 51: the pattern as the raw string holds it.
Pat10 ==
    <<"i", "f", " ", "\\", "(", "p", "a", "t", "h", "P", "r", "e", "f", "i", "x", " ", "&",
      "&", " ", "p", "a", "t", "h", "T", "r", "a", "n", "s", "f", "o", "r", "m", "a", "t", "i",
      "o", "n", "\\", "?", "\\", ".", "i", "g", "n", "o", "r", "e", "P", "a", "t", "h", "s",
      "\\", "?", "\\", ".", "i", "n", "c", "l", "u", "d", "e", "s", "\\", "(", "p", "a", "t",
      "h", "P", "r", "e", "f", "i", "x", "\\", ")", "\\", ")", " ", "\\", "{">>

\* Rule 10, line 52: the replacement.
Rep10 ==
    <<"/", "/", " ", "P", "a", "t", "t", "e", "r", "n", ":", " ", "O", "p", "t", "i", "o", "n",
      "a", "l", " ", "c", "h", "a", "i", "n", "i", "n", "g", " ", "w", "i", "t", "h", " ", "e",
      "x", "p", "l", "i", "c", "i", "t", " ", "c", "h", "e", "c", "k", "s", "\n", " ", " ",
      " ", " ", "i", "f", " ", "(", "p", "a", "t", "h", "P", "r", "e", "f", "i", "x", " ", "!",
      "=", "=", " ", "u", "n", "d", "e", "f", "i", "n", "e", "d", " ", "&", "&", " ", "p", "a",
      "t", "h", "P", "r", "e", "f", "i", "x", " ", "!", "=", "=", " ", "n", "u", "l", "l", " ",
      "&", "&", " ", "p", "a", "t", "h", "P", "r", "e", "f", "i", "x", " ", "!", "=", "=", " ",
      "'", "'", " ", "&", "&", "\n", " ", " ", " ", " ", " ", " ", " ", " ", "p", "a", "t",
      "h", "T", "r", "a", "n", "s", "f", "o", "r", "m", "a", "t", "i", "o", "n", "?", ".", "i",
      "g", "n", "o", "r", "e", "P", "a", "t", "h", "s", "?", ".", "i", "n", "c", "l", "u", "d",
      "e", "s", "(", "p", "a", "t", "h", "P", "r", "e", "f", "i", "x", ")", ")", " ", "{">>

\* Rule 11, line 56: the pattern as the raw string holds it.
Pat11 ==
    <<" ", " ", "/", "/", " ", "F", "i", "r", "s", "t", " ", "p", "r", "i", "o", "r", "i", "t",
      "y", ":", " ", "U", "s", "e", " ", "f", "r", "o", "n", "t", "m", "a", "t", "t", "e", "r",
      " ", "d", "e", "s", "c", "r", "i", "p", "t", "i", "o", "n", " ", "i", "f", " ", "a", "v",
      "a", "i", "l", "a", "b", "l", "e", "\\", "n", " ", " ", "i", "f", " ", "\\", "(", "d",
      "a", "t", "a", "\\", ".", "d", "e", "s", "c", "r", "i", "p", "t", "i", "o", "n", "\\",
      ")", " ", "\\", "{">>

\* Rule 11, line 57: the replacement.
Rep11 ==
    <<" ", " ", "/", "/", " ", "F", "i", "r", "s", "t", " ", "p", "r", "i", "o", "r", "i", "t",
      "y", ":", " ", "U", "s", "e", " ", "f", "r", "o", "n", "t", "m", "a", "t", "t", "e", "r",
      " ", "d", "e", "s", "c", "r", "i", "p", "t", "i", "o", "n", " ", "i", "f", " ", "a", "v",
      "a", "i", "l", "a", "b", "l", "e", "\n", " ", " ", "/", "/", " ", "P", "a", "t", "t",
      "e", "r", "n", ":", " ", "E", "x", "p", "l", "i", "c", "i", "t", " ", "c", "h", "e", "c",
      "k", " ", "f", "o", "r", " ", "n", "o", "n", "-", "e", "m", "p", "t", "y", " ", "s", "t",
      "r", "i", "n", "g", "\n", " ", " ", "i", "f", " ", "(", "d", "a", "t", "a", ".", "d",
      "e", "s", "c", "r", "i", "p", "t", "i", "o", "n", " ", "!", "=", "=", " ", "u", "n", "d",
      "e", "f", "i", "n", "e", "d", " ", "&", "&", " ", "d", "a", "t", "a", ".", "d", "e", "s",
      "c", "r", "i", "p", "t", "i", "o", "n", " ", "!", "=", "=", " ", "n", "u", "l", "l", " ",
      "&", "&", "\n", " ", " ", " ", " ", " ", " ", "t", "y", "p", "e", "o", "f", " ", "d",
      "a", "t", "a", ".", "d", "e", "s", "c", "r", "i", "p", "t", "i", "o", "n", " ", "=", "=",
      "=", " ", "'", "s", "t", "r", "i", "n", "g", "'", " ", "&", "&", " ", "d", "a", "t", "a",
      ".", "d", "e", "s", "c", "r", "i", "p", "t", "i", "o", "n", ".", "t", "r", "i", "m", "(",
      ")", " ", "!", "=", "=", " ", "'", "'", ")", " ", "{">>

\* Rule 12, line 60: the pattern as the raw string holds it.
Pat12 ==
    <<" ", " ", "/", "/", " ", "O", "n", "l", "y", " ", "r", "e", "m", "o", "v", "e", " ", "h",
      "e", "a", "d", "i", "n", "g", " ", "m", "a", "r", "k", "e", "r", "s", " ", "a", "t", " ",
      "t", "h", "e", " ", "b", "e", "g", "i", "n", "n", "i", "n", "g", " ", "o", "f", " ", "d",
      "e", "s", "c", "r", "i", "p", "t", "i", "o", "n", "s", " ", "o", "r", " ", "l", "i", "n",
      "e", "s", "\\", "n", " ", " ", "/", "/", " ", "T", "h", "i", "s", " ", "p", "r", "e",
      "s", "e", "r", "v", "e", "s", " ", "#", " ", "c", "h", "a", "r", "a", "c", "t", "e", "r",
      "s", " ", "t", "h", "a", "t", " ", "a", "r", "e", " ", "p", "a", "r", "t", " ", "o", "f",
      " ", "t", "h", "e", " ", "c", "o", "n", "t", "e", "n", "t", "\\", "n", " ", " ", "i",
      "f", " ", "\\", "(", "d", "e", "s", "c", "r", "i", "p", "t", "i", "o", "n", "\\", ")",
      " ", "\\", "{">>

\* Rule 12, line 61: the replacement.
Rep12 ==
    <<" ", " ", "/", "/", " ", "O", "n", "l", "y", " ", "r", "e", "m", "o", "v", "e", " ", "h",
      "e", "a", "d", "i", "n", "g", " ", "m", "a", "r", "k", "e", "r", "s", " ", "a", "t", " ",
      "t", "h", "e", " ", "b", "e", "g", "i", "n", "n", "i", "n", "g", " ", "o", "f", " ", "d",
      "e", "s", "c", "r", "i", "p", "t", "i", "o", "n", "s", " ", "o", "r", " ", "l", "i", "n",
      "e", "s", "\n", " ", " ", "/", "/", " ", "T", "h", "i", "s", " ", "p", "r", "e", "s",
      "e", "r", "v", "e", "s", " ", "#", " ", "c", "h", "a", "r", "a", "c", "t", "e", "r", "s",
      " ", "t", "h", "a", "t", " ", "a", "r", "e", " ", "p", "a", "r", "t", " ", "o", "f", " ",
      "t", "h", "e", " ", "c", "o", "n", "t", "e", "n", "t", "\n", " ", " ", "/", "/", " ",
      "P", "a", "t", "t", "e", "r", "n", ":", " ", "E", "x", "p", "l", "i", "c", "i", "t", " ",
      "n", "o", "n", "-", "e", "m", "p", "t", "y", " ", "s", "t", "r", "i", "n", "g", " ", "c",
      "h", "e", "c", "k", "\n", " ", " ", "i", "f", " ", "(", "d", "e", "s", "c", "r", "i",
      "p", "t", "i", "o", "n", " ", "!", "=", "=", " ", "u", "n", "d", "e", "f", "i", "n", "e",
      "d", " ", "&", "&", " ", "d", "e", "s", "c", "r", "i", "p", "t", "i", "o", "n", " ", "!",
      "=", "=", " ", "n", "u", "l", "l", " ", "&", "&", " ", "d", "e", "s", "c", "r", "i", "p",
      "t", "i", "o", "n", " ", "!", "=", "=", " ", "'", "'", ")", " ", "{">>

\* Rule 13, line 65: the pattern as the raw string holds it.
Pat13 ==
    <<" ", " ", " ", " ", "/", "/", " ", "A", "d", "d", " ", "r", "e", "m", "a", "i", "n", "i",
      "n", "g", " ", "f", "i", "l", "e", "s", " ", "i", "f", " ", "i", "n", "c", "l", "u", "d",
      "e", "U", "n", "m", "a", "t", "c", "h", "e", "d", " ", "i", "s", " ", "t", "r", "u", "e",
      "\\", "n", " ", " ", " ", " ", "i", "f", " ", "\\", "(", "i", "n", "c", "l", "u", "d",
      "e", "U", "n", "m", "a", "t", "c", "h", "e", "d", "\\", ")", " ", "\\", "{">>

\* Rule 13, line 66: the replacement.
Rep13 ==
    <<" ", " ", " ", " ", "/", "/", " ", "A", "d", "d", " ", "r", "e", "m", "a", "i", "n", "i",
      "n", "g", " ", "f", "i", "l", "e", "s", " ", "i", "f", " ", "i", "n", "c", "l", "u", "d",
      "e", "U", "n", "m", "a", "t", "c", "h", "e", "d", " ", "i", "s", " ", "t", "r", "u", "e",
      "\n", " ", " ", " ", " ", "/", "/", " ", "P", "a", "t", "t", "e", "r", "n", ":", " ",
      "E", "x", "p", "l", "i", "c", "i", "t", " ", "b", "o", "o", "l", "e", "a", "n", " ", "c",
      "h", "e", "c", "k", " ", "(", "d", "i", "s", "t", "i", "n", "g", "u", "i", "s", "h", "e",
      "s", " ", "f", "a", "l", "s", "e", " ", "f", "r", "o", "m", " ", "u", "n", "d", "e", "f",
      "i", "n", "e", "d", ")", "\n", " ", " ", " ", " ", "i", "f", " ", "(", "i", "n", "c",
      "l", "u", "d", "e", "U", "n", "m", "a", "t", "c", "h", "e", "d", " ", "=", "=", "=", " ",
      "t", "r", "u", "e", ")", " ", "{">>

\* Rule 14, line 70: the pattern as the raw string holds it.
Pat14 ==
    <<" ", " ", " ", " ", " ", " ", " ", " ", "/", "/", " ", "T", "r", "y", " ", "t", "o", " ",
      "f", "i", "n", "d", " ", "t", "h", "e", " ", "r", "e", "s", "o", "l", "v", "e", "d", " ",
      "U", "R", "L", " ", "f", "o", "r", " ", "t", "h", "i", "s", " ", "f", "i", "l", "e", " ",
      "f", "r", "o", "m", " ", "t", "h", "e", " ", "r", "o", "u", "t", "e", " ", "m", "a", "p",
      "\\", "n", " ", " ", " ", " ", " ", " ", " ", " ", "l", "e", "t", " ", "r", "e", "s",
      "o", "l", "v", "e", "d", "U", "r", "l", ":", " ", "s", "t", "r", "i", "n", "g", " ",
      "\\", "|", " ", "u", "n", "d", "e", "f", "i", "n", "e", "d", ";", "\\", "n", " ", " ",
      " ", " ", " ", " ", " ", " ", "i", "f", " ", "\\", "(", "c", "o", "n", "t", "e", "x",
      "t", "\\", ".", "r", "o", "u", "t", "e", "M", "a", "p", "\\", ")", " ", "\\", "{">>

\* Rule 14, line 71: the replacement.
Rep14 ==
    <<" ", " ", " ", " ", " ", " ", " ", " ", "/", "/", " ", "T", "r", "y", " ", "t", "o", " ",
      "f", "i", "n", "d", " ", "t", "h", "e", " ", "r", "e", "s", "o", "l", "v", "e", "d", " ",
      "U", "R", "L", " ", "f", "o", "r", " ", "t", "h", "i", "s", " ", "f", "i", "l", "e", " ",
      "f", "r", "o", "m", " ", "t", "h", "e", " ", "r", "o", "u", "t", "e", " ", "m", "a", "p",
      "\n", " ", " ", " ", " ", " ", " ", " ", " ", "l", "e", "t", " ", "r", "e", "s", "o",
      "l", "v", "e", "d", "U", "r", "l", ":", " ", "s", "t", "r", "i", "n", "g", " ", "|", " ",
      "u", "n", "d", "e", "f", "i", "n", "e", "d", ";", "\n", " ", " ", " ", " ", " ", " ",
      " ", " ", "/", "/", " ", "P", "a", "t", "t", "e", "r", "n", ":", " ", "E", "x", "p", "l",
      "i", "c", "i", "t", " ", "n", "u", "l", "l", "/", "u", "n", "d", "e", "f", "i", "n", "e",
      "d", " ", "c", "h", "e", "c", "k", " ", "f", "o", "r", " ", "o", "p", "t", "i", "o", "n",
      "a", "l", " ", "p", "r", "o", "p", "e", "r", "t", "y", "\n", " ", " ", " ", " ", " ",
      " ", " ", " ", "i", "f", " ", "(", "c", "o", "n", "t", "e", "x", "t", ".", "r", "o", "u",
      "t", "e", "M", "a", "p", " ", "!", "=", "=", " ", "u", "n", "d", "e", "f", "i", "n", "e",
      "d", " ", "&", "&", " ", "c", "o", "n", "t", "e", "x", "t", ".", "r", "o", "u", "t", "e",
      "M", "a", "p", " ", "!", "=", "=", " ", "n", "u", "l", "l", ")", " ", "{">>

\* Rule 15, line 75: the pattern as the raw string holds it.
Pat15 ==
    <<" ", " ", " ", " ", " ", " ", " ", " ", " ", " ", "/", "/", " ", "O", "N", "L", "Y", " ",
      "i", "f", " ", "e", "x", "a", "c", "t", " ", "m", "a", "t", "c", "h", " ", "f", "a", "i",
      "l", "s", ",", " ", "t", "r", "y", " ", "n", "u", "m", "b", "e", "r", "e", "d", " ", "p",
      "r", "e", "f", "i", "x", " ", "r", "e", "m", "o", "v", "a", "l", " ", "a", "s", " ", "f",
      "a", "l", "l", "b", "a", "c", "k", "\\", "n", " ", " ", " ", " ", " ", " ", " ", " ",
      " ", " ", "i", "f", " ", "\\", "(", "!", "r", "e", "s", "o", "l", "v", "e", "d", "U",
      "r", "l", "\\", ")", " ", "\\", "{">>

\* Rule 15, line 76: the replacement.
Rep15 ==
    <<" ", " ", " ", " ", " ", " ", " ", " ", " ", " ", "/", "/", " ", "O", "N", "L", "Y", " ",
      "i", "f", " ", "e", "x", "a", "c", "t", " ", "m", "a", "t", "c", "h", " ", "f", "a", "i",
      "l", "s", ",", " ", "t", "r", "y", " ", "n", "u", "m", "b", "e", "r", "e", "d", " ", "p",
      "r", "e", "f", "i", "x", " ", "r", "e", "m", "o", "v", "a", "l", " ", "a", "s", " ", "f",
      "a", "l", "l", "b", "a", "c", "k", "\n", " ", " ", " ", " ", " ", " ", " ", " ", " ",
      " ", "/", "/", " ", "P", "a", "t", "t", "e", "r", "n", ":", " ", "E", "x", "p", "l", "i",
      "c", "i", "t", " ", "u", "n", "d", "e", "f", "i", "n", "e", "d", " ", "c", "h", "e", "c",
      "k", "\n", " ", " ", " ", " ", " ", " ", " ", " ", " ", " ", "i", "f", " ", "(", "r",
      "e", "s", "o", "l", "v", "e", "d", "U", "r", "l", " ", "=", "=", "=", " ", "u", "n", "d",
      "e", "f", "i", "n", "e", "d", ")", " ", "{">>

\* Rule 16, line 79: the pattern as the raw string holds it.
Pat16 ==
    <<" ", " ", " ", " ", " ", " ", " ", " ", " ", " ", " ", " ", "/", "/", " ", "A", "l", "s",
      "o", " ", "h", "a", "n", "d", "l", "e", " ", "n", "e", "s", "t", "e", "d", " ", "f", "o",
      "l", "d", "e", "r", " ", "s", "t", "r", "u", "c", "t", "u", "r", "e", "s", " ", "w", "i",
      "t", "h", " ", "n", "u", "m", "b", "e", "r", "e", "d", " ", "p", "r", "e", "f", "i", "x",
      "e", "s", "\\", "n", " ", " ", " ", " ", " ", " ", " ", " ", " ", " ", " ", " ", "i",
      "f", " ", "\\", "(", "!", "r", "e", "s", "o", "l", "v", "e", "d", "U", "r", "l", "\\",
      ")", " ", "\\", "{">>

\* Rule 16, line 80: the replacement.
Rep16 ==
    <<" ", " ", " ", " ", " ", " ", " ", " ", " ", " ", " ", " ", "/", "/", " ", "A", "l", "s",
      "o", " ", "h", "a", "n", "d", "l", "e", " ", "n", "e", "s", "t", "e", "d", " ", "f", "o",
      "l", "d", "e", "r", " ", "s", "t", "r", "u", "c", "t", "u", "r", "e", "s", " ", "w", "i",
      "t", "h", " ", "n", "u", "m", "b", "e", "r", "e", "d", " ", "p", "r", "e", "f", "i", "x",
      "e", "s", "\n", " ", " ", " ", " ", " ", " ", " ", " ", " ", " ", " ", " ", "/", "/",
      " ", "P", "a", "t", "t", "e", "r", "n", ":", " ", "E", "x", "p", "l", "i", "c", "i", "t",
      " ", "u", "n", "d", "e", "f", "i", "n", "e", "d", " ", "c", "h", "e", "c", "k", "\n",
      " ", " ", " ", " ", " ", " ", " ", " ", " ", " ", " ", " ", "i", "f", " ", "(", "r", "e",
      "s", "o", "l", "v", "e", "d", "U", "r", "l", " ", "=", "=", "=", " ", "u", "n", "d", "e",
      "f", "i", "n", "e", "d", ")", " ", "{">>

\* Rule 17, line 83: the pattern as the raw string holds it.
Pat17 ==
    <<" ", " ", " ", " ", " ", " ", " ", " ", " ", " ", " ", " ", " ", " ", " ", " ", " ", " ",
      "i", "f", " ", "\\", "(", "r", "e", "s", "o", "l", "v", "e", "d", "U", "r", "l", "\\",
      ")", " ", "b", "r", "e", "a", "k", ";">>

\* Rule 17, line 84: the replacement.
Rep17 ==
    <<"i", "f", " ", "(", "r", "e", "s", "o", "l", "v", "e", "d", "U", "r", "l", " ", "!", "=",
      "=", " ", "u", "n", "d", "e", "f", "i", "n", "e", "d", ")", " ", "b", "r", "e", "a", "k",
      ";">>

\* Rule 18, line 87: the pattern as the raw string holds it.
Pat18 ==
    <<" ", " ", " ", " ", " ", " ", " ", " ", " ", " ", " ", " ", "/", "/", " ", "I", "f", " ",
      "s", "t", "i", "l", "l", " ", "n", "o", "t", " ", "f", "o", "u", "n", "d", ",", " ", "t",
      "r", "y", " ", "t", "o", " ", "f", "i", "n", "d", " ", "t", "h", "e", " ", "b", "e", "s",
      "t", " ", "m", "a", "t", "c", "h", " ", "u", "s", "i", "n", "g", " ", "t", "h", "e", " ",
      "r", "o", "u", "t", "e", "s", "P", "a", "t", "h", "s", " ", "a", "r", "r", "a", "y",
      "\\", "n", " ", " ", " ", " ", " ", " ", " ", " ", " ", " ", " ", " ", "i", "f", " ",
      "\\", "(", "!", "r", "e", "s", "o", "l", "v", "e", "d", "U", "r", "l", " ", "&", "&",
      " ", "c", "o", "n", "t", "e", "x", "t", "\\", ".", "r", "o", "u", "t", "e", "s", "P",
      "a", "t", "h", "s", "\\", ")", " ", "\\", "{">>

\* Rule 18, line 88: the replacement.
Rep18 ==
    <<" ", " ", " ", " ", " ", " ", " ", " ", " ", " ", " ", " ", "/", "/", " ", "I", "f", " ",
      "s", "t", "i", "l", "l", " ", "n", "o", "t", " ", "f", "o", "u", "n", "d", ",", " ", "t",
      "r", "y", " ", "t", "o", " ", "f", "i", "n", "d", " ", "t", "h", "e", " ", "b", "e", "s",
      "t", " ", "m", "a", "t", "c", "h", " ", "u", "s", "i", "n", "g", " ", "t", "h", "e", " ",
      "r", "o", "u", "t", "e", "s", "P", "a", "t", "h", "s", " ", "a", "r", "r", "a", "y",
      "\n", " ", " ", " ", " ", " ", " ", " ", " ", " ", " ", " ", " ", "/", "/", " ", "P",
      "a", "t", "t", "e", "r", "n", ":", " ", "E", "x", "p", "l", "i", "c", "i", "t", " ", "u",
      "n", "d", "e", "f", "i", "n", "e", "d", " ", "c", "h", "e", "c", "k", " ", "w", "i", "t",
      "h", " ", "o", "p", "t", "i", "o", "n", "a", "l", " ", "p", "r", "o", "p", "e", "r", "t",
      "y", " ", "c", "h", "e", "c", "k", "\n", " ", " ", " ", " ", " ", " ", " ", " ", " ",
      " ", " ", " ", "i", "f", " ", "(", "r", "e", "s", "o", "l", "v", "e", "d", "U", "r", "l",
      " ", "=", "=", "=", " ", "u", "n", "d", "e", "f", "i", "n", "e", "d", " ", "&", "&",
      "\n", " ", " ", " ", " ", " ", " ", " ", " ", " ", " ", " ", " ", " ", " ", " ", " ",
      "c", "o", "n", "t", "e", "x", "t", ".", "r", "o", "u", "t", "e", "s", "P", "a", "t", "h",
      "s", " ", "!", "=", "=", " ", "u", "n", "d", "e", "f", "i", "n", "e", "d", " ", "&", "&",
      " ", "c", "o", "n", "t", "e", "x", "t", ".", "r", "o", "u", "t", "e", "s", "P", "a", "t",
      "h", "s", " ", "!", "=", "=", " ", "n", "u", "l", "l", ")", " ", "{">>

\* Rule 19, line 91: the pattern as the raw string holds it.
Pat19 ==
    <<" ", " ", " ", " ", " ", " ", " ", " ", " ", " ", " ", " ", " ", " ", "i", "f", " ",
      "\\", "(", "m", "a", "t", "c", "h", "i", "n", "g", "R", "o", "u", "t", "e", "\\", ")",
      " ", "\\", "{">>

\* Rule 19, line 92: the replacement.
Rep19 ==
    <<"/", "/", " ", "P", "a", "t", "t", "e", "r", "n", ":", " ", "E", "x", "p", "l", "i", "c",
      "i", "t", " ", "u", "n", "d", "e", "f", "i", "n", "e", "d", "/", "n", "u", "l", "l", " ",
      "c", "h", "e", "c", "k", "\n", " ", " ", " ", " ", " ", " ", " ", " ", " ", " ", " ",
      " ", " ", " ", "i", "f", " ", "(", "m", "a", "t", "c", "h", "i", "n", "g", "R", "o", "u",
      "t", "e", " ", "!", "=", "=", " ", "u", "n", "d", "e", "f", "i", "n", "e", "d", " ", "&",
      "&", " ", "m", "a", "t", "c", "h", "i", "n", "g", "R", "o", "u", "t", "e", " ", "!", "=",
      "=", " ", "n", "u", "l", "l", ")", " ", "{">>

\* Rule 20, line 95: the pattern as the raw string holds it.
Pat20 ==
    <<" ", " ", " ", " ", " ", " ", " ", " ", " ", " ", "/", "/", " ", "L", "o", "g", " ", "w",
      "h", "e", "n", " ", "w", "e", " ", "s", "u", "c", "c", "e", "s", "s", "f", "u", "l", "l",
      "y", " ", "r", "e", "s", "o", "l", "v", "e", " ", "a", " ", "U", "R", "L", " ", "u", "s",
      "i", "n", "g", " ", "D", "o", "c", "u", "s", "a", "u", "r", "u", "s", " ", "r", "o", "u",
      "t", "e", "s", "\\", "n", " ", " ", " ", " ", " ", " ", " ", " ", " ", " ", "i", "f",
      " ", "\\", "(", "r", "e", "s", "o", "l", "v", "e", "d", "U", "r", "l", " ", "&", "&",
      " ", "r", "e", "s", "o", "l", "v", "e", "d", "U", "r", "l", " ", "!", "=", "=">>

\* Rule 20, line 96: the replacement.
Rep20 ==
    <<" ", " ", " ", " ", " ", " ", " ", " ", " ", " ", "/", "/", " ", "L", "o", "g", " ", "w",
      "h", "e", "n", " ", "w", "e", " ", "s", "u", "c", "c", "e", "s", "s", "f", "u", "l", "l",
      "y", " ", "r", "e", "s", "o", "l", "v", "e", " ", "a", " ", "U", "R", "L", " ", "u", "s",
      "i", "n", "g", " ", "D", "o", "c", "u", "s", "a", "u", "r", "u", "s", " ", "r", "o", "u",
      "t", "e", "s", "\n", " ", " ", " ", " ", " ", " ", " ", " ", " ", " ", "/", "/", " ",
      "P", "a", "t", "t", "e", "r", "n", ":", " ", "E", "x", "p", "l", "i", "c", "i", "t", " ",
      "c", "h", "e", "c", "k", " ", "f", "o", "r", " ", "d", "e", "f", "i", "n", "e", "d", " ",
      "a", "n", "d", " ", "d", "i", "f", "f", "e", "r", "e", "n", "t", " ", "v", "a", "l", "u",
      "e", "\n", " ", " ", " ", " ", " ", " ", " ", " ", " ", " ", "i", "f", " ", "(", "r",
      "e", "s", "o", "l", "v", "e", "d", "U", "r", "l", " ", "!", "=", "=", " ", "u", "n", "d",
      "e", "f", "i", "n", "e", "d", " ", "&", "&", " ", "r", "e", "s", "o", "l", "v", "e", "d",
      "U", "r", "l", " ", "!", "=", "=", " ", "n", "u", "l", "l", " ", "&", "&", "\n", " ",
      " ", " ", " ", " ", " ", " ", " ", " ", " ", " ", " ", " ", " ", "r", "e", "s", "o", "l",
      "v", "e", "d", "U", "r", "l", " ", "!", "=", "=">>

ProcessorTs == "src/processor.ts"

\* The table of lines 10-97.
ConfigReplacements ==
    <<
      [file |-> ProcessorTs, pattern |-> Pat01, repl |-> Rep01],
      [file |-> ProcessorTs, pattern |-> Pat02, repl |-> Rep02],
      [file |-> ProcessorTs, pattern |-> Pat03, repl |-> Rep03],
      [file |-> ProcessorTs, pattern |-> Pat04, repl |-> Rep04],
      [file |-> ProcessorTs, pattern |-> Pat05, repl |-> Rep05],
      [file |-> ProcessorTs, pattern |-> Pat06, repl |-> Rep06],
      [file |-> ProcessorTs, pattern |-> Pat07, repl |-> Rep07],
      [file |-> ProcessorTs, pattern |-> Pat08, repl |-> Rep08],
      [file |-> ProcessorTs, pattern |-> Pat09, repl |-> Rep09],
      [file |-> ProcessorTs, pattern |-> Pat10, repl |-> Rep10],
      [file |-> ProcessorTs, pattern |-> Pat11, repl |-> Rep11],
      [file |-> ProcessorTs, pattern |-> Pat12, repl |-> Rep12],
      [file |-> ProcessorTs, pattern |-> Pat13, repl |-> Rep13],
      [file |-> ProcessorTs, pattern |-> Pat14, repl |-> Rep14],
      [file |-> ProcessorTs, pattern |-> Pat15, repl |-> Rep15],
      [file |-> ProcessorTs, pattern |-> Pat16, repl |-> Rep16],
      [file |-> ProcessorTs, pattern |-> Pat17, repl |-> Rep17],
      [file |-> ProcessorTs, pattern |-> Pat18, repl |-> Rep18],
      [file |-> ProcessorTs, pattern |-> Pat19, repl |-> Rep19],
      [file |-> ProcessorTs, pattern |-> Pat20, repl |-> Rep20]
    >>

----------------------------------------------------------------------------
(* re.sub(pattern, replacement, content, count=1) *)

\* Whether the character at position i of s is taken with a backslash
\* before it: backslashes pair up from the left, so it is when the run of
\* backslashes that ends right before i has odd length.
TakenWithBackslash(s, i) ==
    /\ i > 1
    /\ s[i - 1] = "\\"
    /\ \/ i = 2
       \/ s[i - 2] # "\\"
       \/ Cardinality({j \in 1..(i - 1) : \A k \in j..(i - 1) : s[k] = "\\"}) % 2 = 1

\* Variant of Unescape: the pattern is taken for the text to find, as
\* str.replace would take it.
UnescapeVerbatim(p) == p

\* The literal text matched by an escaped-literal pattern: a backslash
\* followed by n stands for the newline, a backslash followed by any other
\* character for that character, every other character for itself.
Unescape(p) ==
    LET marked == [i \in 1..Len(p) |->
                     IF TakenWithBackslash(p, i)
                     THEN (IF p[i] = "n" THEN "\n" ELSE p[i])
                     ELSE IF p[i] = "\\" /\ i < Len(p) THEN "" ELSE p[i]]
    IN SelectSeq(marked, LAMBDA c : c # "")

\* The positions at which the literal text lit occurs in s.
MatchPositions(lit, s) ==
    IF lit = <<>> THEN 1..(Len(s) + 1)
    ELSE {i \in 1..(Len(s) - Len(lit) + 1) :
             s[i] = lit[1] /\ SubSeq(s, i, i + Len(lit) - 1) = lit}

\* The leftmost position at which lit occurs in s, 0 when there is none.
FirstMatch(lit, s) ==
    LET ps == MatchPositions(lit, s)
    IN IF ps = {} THEN 0 ELSE CHOOSE i \in ps : \A j \in ps : i <= j

\* The expansion of a replacement template: a backslash followed by n is
\* the newline, two backslashes are one, a backslash before any other
\* character that is no letter or digit stays with it, and every other
\* character stands for itself.
Expand(repl) ==
    LET marked == [i \in 1..Len(repl) |->
                     IF TakenWithBackslash(repl, i) /\ repl[i] \in {"n", "\\"}
                     THEN (IF repl[i] = "n" THEN "\n" ELSE "\\")
                     ELSE IF /\ repl[i] = "\\"
                             /\ i < Len(repl)
                             /\ repl[i + 1] \in {"n", "\\"}
                             /\ ~TakenWithBackslash(repl, i)
                          THEN "" ELSE repl[i]]
    IN SelectSeq(marked, LAMBDA c : c # "")

\* Variant of ReSub: count=1 is left out, every match is replaced.
RECURSIVE SubAll(_, _, _)
SubAll(lit, rep, s) ==
    LET i == FirstMatch(lit, s)
    IN IF i = 0 \/ lit = <<>> THEN s
       ELSE SubSeq(s, 1, i - 1) \o rep \o SubAll(lit, rep, SubSeq(s, i + Len(lit), Len(s)))

ReSubAll(pattern, repl, s) == SubAll(Unescape(pattern), Expand(repl), s)

\* Variant of ReSub: the replacement is put in front of the match, which
\* stays.
ReSubKeepsMatch(pattern, repl, s) ==
    LET lit == Unescape(pattern)
        i == FirstMatch(lit, s)
    IN IF i = 0 THEN s
       ELSE SubSeq(s, 1, i - 1) \o Expand(repl) \o SubSeq(s, i, Len(s))

ReSub(pattern, repl, s) ==
    LET lit == Unescape(pattern)
        i == FirstMatch(lit, s)
    IN IF i = 0 THEN s
       ELSE SubSeq(s, 1, i - 1) \o Expand(repl) \o SubSeq(s, i + Len(lit), Len(s))

----------------------------------------------------------------------------
(* files_to_process: the rules grouped by file, files in order of first use *)

RECURSIVE GroupByFile(_, _)
GroupByFile(rs, acc) ==
    IF rs = <<>> THEN acc
    ELSE LET r == Head(rs)
             known == {k \in 1..Len(acc) : acc[k].file = r.file}
         IN IF known = {}
            THEN GroupByFile(Tail(rs),
                     Append(acc, [file |-> r.file,
                                  patterns |-> <<[pattern |-> r.pattern, repl |-> r.repl]>>]))
            ELSE LET k == CHOOSE k \in known : TRUE
                 IN GroupByFile(Tail(rs),
                        [acc EXCEPT ![k].patterns =
                            Append(@, [pattern |-> r.pattern, repl |-> r.repl])])

CurFile == files_to_process[fileIdx].file
CurPatterns == files_to_process[fileIdx].patterns

----------------------------------------------------------------------------
(* The script *)

NoReport == [status |-> "none", changes |-> 0]

\* History of one file in one execution: the number of open(.., 'r') and of
\* open(.., 'w'), the number of rules whose pattern matched the buffer when
\* attempted, the number of those whose replacement differs from the text
\* matched, the positions in the file's list of the rules after which the
\* buffer was different, whether the rule loop has ended, the buffer when it
\* ended, and whether an I/O operation on the file failed.
NoHist ==
    [reads |-> 0, writes |-> 0, matched |-> 0, altering |-> 0, changed |-> {},
     looped |-> FALSE, buf |-> <<>>, fault |-> FALSE]

NoPrev == [disk |-> <<>>, disk0 |-> <<>>, report |-> <<>>]

\* The script starts over the table rs and the file system (d, pr).
Start(rs, d, pr) ==
    /\ replacements = rs
    /\ files_to_process = GroupByFile(rs, <<>>)
    /\ disk = d
    /\ present = pr
    /\ pc = "loop"
    /\ fileIdx = 1
    /\ ruleIdx = 1
    /\ content = <<>>
    /\ original_content = <<>>
    /\ changes_made = 0
    /\ report = [f \in DOMAIN d |-> NoReport]
    /\ buildCount = 0
    /\ buildStatus = "none"
    /\ run = 1
    /\ disk0 = d
    /\ hist = [f \in DOMAIN d |-> NoHist]
    /\ prev = NoPrev

\* Where the script is: at the head of the loop over files_to_process with a
\* file left or with none, at the head of the loop over the file's patterns
\* with a rule left or with none, inside the with block that writes.
MoreFiles == pc = "loop" /\ fileIdx <= Len(files_to_process)
FilesDone == pc = "loop" /\ fileIdx > Len(files_to_process)
MoreRules == pc = "rules" /\ ruleIdx <= Len(CurPatterns)
RulesDone == pc = "rules" /\ ruleIdx > Len(CurPatterns)
Writing == pc = "write"

\* apply_replacements returns to the loop over files_to_process.
Return(st, n) ==
    /\ report' = [report EXCEPT ![CurFile] = [status |-> st, changes |-> n]]
    /\ fileIdx' = fileIdx + 1
    /\ pc' = "loop"

\* open(file_path, 'r') and f.read() succeed.
ReadOk ==
    /\ MoreFiles
    /\ CurFile \in present
    /\ content' = disk[CurFile]
    /\ original_content' = disk[CurFile]
    /\ changes_made' = 0
    /\ ruleIdx' = 1
    /\ pc' = "rules"
    /\ hist' = [hist EXCEPT ![CurFile].reads = @ + 1]
    /\ UNCHANGED <<replacements, files_to_process, disk, present, fileIdx,
                   report, buildCount, buildStatus, run, disk0, prev>>

\* Variant of ReadFail: no except clause, the error ends the script.
ReadFailAborts ==
    /\ MoreFiles
    /\ report' = [report EXCEPT ![CurFile] = [status |-> "error", changes |-> 0]]
    /\ pc' = "done"
    /\ hist' = [hist EXCEPT ![CurFile].reads = @ + 1, ![CurFile].fault = TRUE]
    /\ UNCHANGED <<replacements, files_to_process, disk, present, fileIdx,
                   ruleIdx, content, original_content, changes_made,
                   buildCount, buildStatus, run, disk0, prev>>

\* open(file_path, 'r') or f.read() raises: the file is missing, or it is
\* there and cannot be read.  The except clause prints the error.
ReadFail ==
    /\ MoreFiles
    /\ Return("error", 0)
    /\ hist' = [hist EXCEPT ![CurFile].reads = @ + 1, ![CurFile].fault = TRUE]
    /\ UNCHANGED <<replacements, files_to_process, disk, present, ruleIdx,
                   content, original_content, changes_made, buildCount,
                   buildStatus, run, disk0, prev>>

\* Variant of ApplyRule: the count goes up with every rule attempted.
ApplyRuleCountsAttempts ==
    /\ MoreRules
    /\ LET rule == CurPatterns[ruleIdx]
           new_content == ReSub(rule.pattern, rule.repl, content)
           lit == Unescape(rule.pattern)
           hit == FirstMatch(lit, content) # 0
       IN /\ changes_made' = changes_made + 1
          /\ content' = new_content
          /\ hist' = [hist EXCEPT
                 ![CurFile].matched = IF hit THEN @ + 1 ELSE @,
                 ![CurFile].altering =
                     IF hit /\ Expand(rule.repl) # lit
                     THEN @ + 1 ELSE @,
                 ![CurFile].changed =
                     IF new_content # content THEN @ \cup {ruleIdx} ELSE @]
    /\ ruleIdx' = ruleIdx + 1
    /\ UNCHANGED <<replacements, files_to_process, disk, present, pc, fileIdx,
                   original_content, report, buildCount, buildStatus, run,
                   disk0, prev>>

\* Variant of ApplyRule: the file is written after every rule.
ApplyRuleWriteThrough ==
    /\ MoreRules
    /\ LET rule == CurPatterns[ruleIdx]
           new_content == ReSub(rule.pattern, rule.repl, content)
           lit == Unescape(rule.pattern)
           hit == FirstMatch(lit, content) # 0
       IN /\ IF new_content # content
             THEN /\ changes_made' = changes_made + 1
                  /\ content' = new_content
             ELSE UNCHANGED <<changes_made, content>>
          /\ hist' = [hist EXCEPT
                 ![CurFile].matched = IF hit THEN @ + 1 ELSE @,
                 ![CurFile].altering =
                     IF hit /\ Expand(rule.repl) # lit
                     THEN @ + 1 ELSE @,
                 ![CurFile].changed =
                     IF new_content # content THEN @ \cup {ruleIdx} ELSE @]
    /\ ruleIdx' = ruleIdx + 1
    /\ disk' = [disk EXCEPT ![CurFile] = content']
    /\ UNCHANGED <<replacements, files_to_process, present, pc, fileIdx,
                   original_content, report, buildCount, buildStatus, run,
                   disk0, prev>>

\* Variant of ApplyRule: the loop is left at the first rule that changes
\* the buffer.
ApplyRuleBreaks ==
    /\ MoreRules
    /\ LET rule == CurPatterns[ruleIdx]
           new_content == ReSub(rule.pattern, rule.repl, content)
           lit == Unescape(rule.pattern)
           hit == FirstMatch(lit, content) # 0
       IN /\ IF new_content # content
             THEN /\ changes_made' = changes_made + 1
                  /\ content' = new_content
             ELSE UNCHANGED <<changes_made, content>>
          /\ hist' = [hist EXCEPT
                 ![CurFile].matched = IF hit THEN @ + 1 ELSE @,
                 ![CurFile].altering =
                     IF hit /\ Expand(rule.repl) # lit
                     THEN @ + 1 ELSE @,
                 ![CurFile].changed =
                     IF new_content # content THEN @ \cup {ruleIdx} ELSE @]
    /\ ruleIdx' = IF content' # content THEN Len(CurPatterns) + 1 ELSE ruleIdx + 1
    /\ UNCHANGED <<replacements, files_to_process, disk, present, pc, fileIdx,
                   original_content, report, buildCount, buildStatus, run,
                   disk0, prev>>

\* One iteration of the loop over the file's patterns.
ApplyRule ==
    /\ MoreRules
    /\ LET rule == CurPatterns[ruleIdx]
           new_content == ReSub(rule.pattern, rule.repl, content)
           lit == Unescape(rule.pattern)
           hit == FirstMatch(lit, content) # 0
       IN /\ IF new_content # content
             THEN /\ changes_made' = changes_made + 1
                  /\ content' = new_content
             ELSE UNCHANGED <<changes_made, content>>
          /\ hist' = [hist EXCEPT
                 ![CurFile].matched = IF hit THEN @ + 1 ELSE @,
                 ![CurFile].altering =
                     IF hit /\ Expand(rule.repl) # lit
                     THEN @ + 1 ELSE @,
                 ![CurFile].changed =
                     IF new_content # content THEN @ \cup {ruleIdx} ELSE @]
    /\ ruleIdx' = ruleIdx + 1
    /\ UNCHANGED <<replacements, files_to_process, disk, present, pc, fileIdx,
                   original_content, report, buildCount, buildStatus, run,
                   disk0, prev>>

\* The loop is over and nothing changed: "No changes needed".
NoChange ==
    /\ RulesDone
    /\ changes_made = 0
    /\ Return("unchanged", 0)
    /\ hist' = [hist EXCEPT ![CurFile].looped = TRUE, ![CurFile].buf = content]
    /\ UNCHANGED <<replacements, files_to_process, disk, present, ruleIdx,
                   content, original_content, changes_made, buildCount,
                   buildStatus, run, disk0, prev>>

\* Variant of OpenWriteOk: the file is opened for writing whether or not a
\* rule changed the buffer.
OpenWriteAlways ==
    /\ RulesDone
    /\ disk' = [disk EXCEPT ![CurFile] = <<>>]
    /\ hist' = [hist EXCEPT ![CurFile].looped = TRUE, ![CurFile].buf = content,
                            ![CurFile].writes = @ + 1]
    /\ pc' = "write"
    /\ UNCHANGED <<replacements, files_to_process, present, fileIdx, ruleIdx,
                   content, original_content, changes_made, report,
                   buildCount, buildStatus, run, disk0, prev>>

\* The loop is over with changes and open(file_path, 'w') succeeds: the
\* file is truncated.
OpenWriteOk ==
    /\ RulesDone
    /\ changes_made > 0
    /\ disk' = [disk EXCEPT ![CurFile] = <<>>]
    /\ hist' = [hist EXCEPT ![CurFile].looped = TRUE, ![CurFile].buf = content,
                            ![CurFile].writes = @ + 1]
    /\ pc' = "write"
    /\ UNCHANGED <<replacements, files_to_process, present, fileIdx, ruleIdx,
                   content, original_content, changes_made, report,
                   buildCount, buildStatus, run, disk0, prev>>

\* The loop is over with changes and open(file_path, 'w') raises: the file
\* is as it was.
OpenWriteFail ==
    /\ RulesDone
    /\ changes_made > 0
    /\ Return("error", 0)
    /\ hist' = [hist EXCEPT ![CurFile].looped = TRUE, ![CurFile].buf = content,
                            ![CurFile].writes = @ + 1, ![CurFile].fault = TRUE]
    /\ UNCHANGED <<replacements, files_to_process, disk, present, ruleIdx,
                   content, original_content, changes_made, buildCount,
                   buildStatus, run, disk0, prev>>

\* Variant of WriteOk: original_content is written.
WriteOkOriginal ==
    /\ Writing
    /\ disk' = [disk EXCEPT ![CurFile] = original_content]
    /\ Return("changed", changes_made)
    /\ UNCHANGED <<replacements, files_to_process, present, ruleIdx, content,
                   original_content, changes_made, buildCount, buildStatus,
                   run, disk0, hist, prev>>

\* f.write(content) and the close of the file succeed: "Applied n changes".
WriteOk ==
    /\ Writing
    /\ disk' = [disk EXCEPT ![CurFile] = content]
    /\ Return("changed", changes_made)
    /\ UNCHANGED <<replacements, files_to_process, present, ruleIdx, content,
                   original_content, changes_made, buildCount, buildStatus,
                   run, disk0, hist, prev>>

\* f.write(content) or the close of the file raises: some prefix of the
\* content has reached the file.
WriteFail ==
    /\ Writing
    /\ \E k \in 0..Len(content) :
           disk' = [disk EXCEPT ![CurFile] = SubSeq(content, 1, k)]
    /\ Return("error", 0)
    /\ hist' = [hist EXCEPT ![CurFile].fault = TRUE]
    /\ UNCHANGED <<replacements, files_to_process, present, ruleIdx, content,
                   original_content, changes_made, buildCount, buildStatus,
                   run, disk0, prev>>

\* Variant of Build: the build is run inside the loop over the files, after
\* each file.
BuildInsideLoop ==
    /\ pc = "loop"
    /\ fileIdx > 1
    /\ buildCount < fileIdx - 1
    /\ buildCount' = buildCount + 1
    /\ buildStatus' \in {"ok", "failed", "raised"}
    /\ pc' = IF fileIdx > Len(files_to_process) THEN "done" ELSE "loop"
    /\ UNCHANGED <<replacements, files_to_process, disk, present, fileIdx,
                   ruleIdx, content, original_content, changes_made, report,
                   run, disk0, hist, prev>>

\* subprocess.run(['npm', 'run', 'build']) after the loop over the files:
\* the build succeeds, fails, or cannot be started (subprocess.run raises,
\* and the script ends there).
Build ==
    /\ FilesDone
    /\ buildCount' = buildCount + 1
    /\ buildStatus' \in {"ok", "failed", "raised"}
    /\ pc' = "done"
    /\ UNCHANGED <<replacements, files_to_process, disk, present, fileIdx,
                   ruleIdx, content, original_content, changes_made, report,
                   run, disk0, hist, prev>>

\* The script is run again on the files the previous execution left.
Rerun ==
    /\ pc = "done"
    /\ run < MaxRuns
    /\ prev' = [disk |-> disk, disk0 |-> disk0, report |-> report]
    /\ run' = run + 1
    /\ pc' = "loop"
    /\ fileIdx' = 1
    /\ ruleIdx' = 1
    /\ content' = <<>>
    /\ original_content' = <<>>
    /\ changes_made' = 0
    /\ report' = [f \in DOMAIN disk |-> NoReport]
    /\ buildCount' = 0
    /\ buildStatus' = "none"
    /\ disk0' = disk
    /\ hist' = [f \in DOMAIN disk |-> NoHist]
    /\ UNCHANGED <<replacements, files_to_process, disk, present>>

----------------------------------------------------------------------------
(* Small-alphabet inputs: every rule list of up to MaxRules rules of the   *)
(* rule book for file f1, alone or with one rule for file f2 before, after *)
(* or between them, over every text of up to MaxLen characters.            *)

\* The pattern that matches exactly the text lit, written as the table
\* writes its patterns.
RECURSIVE Escape(_)
Escape(lit) ==
    IF lit = <<>> THEN <<>>
    ELSE (IF Head(lit) = "\n" THEN <<"\\", "n">>
          ELSE IF Head(lit) \in {"(", ")", "{", "}", ".", "?", "|", "'", "\\"}
               THEN <<"\\", Head(lit)>>
               ELSE <<Head(lit)>>) \o Escape(Tail(lit))

Rule(lit, repl) == [pattern |-> Escape(lit), repl |-> repl]

RuleBook ==
    { Rule(<<"a">>, <<"a", "a">>),
      Rule(<<"a">>, <<"a">>),
      Rule(<<"(">>, <<>>),
      Rule(<<"a", "(">>, <<"(">>),
      Rule(<<"a", "a">>, <<"(">>) }

OtherRule == [file |-> "f2", pattern |-> <<"a">>, repl |-> <<"(">>]

OnFile(f, rs) == [k \in 1..Len(rs) |-> [file |-> f, pattern |-> rs[k].pattern, repl |-> rs[k].repl]]

\* The table with the rules rs for f1 and, when at >= 0, the rule for f2
\* after the first at rules.
Table(rs, at) ==
    LET t == OnFile("f1", rs)
    IN IF at < 0 \/ at > Len(rs) THEN t
       ELSE SubSeq(t, 1, at) \o <<OtherRule>> \o SubSeq(t, at + 1, Len(t))

Tables ==
    {Table(rs, at) : rs \in SeqsUpTo(RuleBook, MaxRules) \ {<<>>}, at \in {-1, 0, 1}}

Init ==
    \E rs \in Tables, c \in SeqsUpTo(Sigma, MaxLen), pr \in {Files, {"f2"}} :
        Start(rs, [f \in Files |-> IF f = "f1" THEN c ELSE <<"a">>], pr)

Next ==
    \/ ReadOk
    \/ ReadFail
    \/ ApplyRule
    \/ NoChange
    \/ OpenWriteOk
    \/ OpenWriteFail
    \/ WriteOk
    \/ WriteFail
    \/ Build

Spec == Init /\ [][Next]_vars

----------------------------------------------------------------------------
(* The script as it is: the table of lines 10-97, in its own order or with  *)
(* the order reversed, over texts of src/processor.ts put together from    *)
(* the texts the patterns match and from the replacements, without I/O     *)
(* failures, run up to MaxRuns times.                                      *)

Reverse(t) == [k \in 1..Len(t) |-> t[Len(t) + 1 - k]]

\* The text pattern k of the table matches, and the text rule k puts in.
CfgRules == 1..Len(ConfigReplacements)
CfgLits == [k \in CfgRules |-> Unescape(ConfigReplacements[k].pattern)]
CfgReps == [k \in CfgRules |-> Expand(ConfigReplacements[k].repl)]
CfgLit(k) == CfgLits[k]
CfgRep(k) == CfgReps[k]

Lead == <<"/", "/", " ", "x", "\n">>
Trail == <<"\n", "}", "\n">>

\* The text of one pattern, or of two on two lines, the one that is first
\* in the table first.
PairTexts ==
    UNION {{Lead \o a \o <<"\n">> \o CfgLit(j) \o Trail :
               a \in {<<>>} \cup {CfgLit(i) : i \in 1..j}}
           : j \in CfgRules}

\* The text of a pattern right after one of its own beginnings, cut where
\* the replacement's first character would continue it, or right before one
\* of its own ends, cut where the replacement's last character would.
EdgeTexts ==
    UNION {LET lit == CfgLit(i)
               rep == CfgRep(i)
           IN {SubSeq(lit, 1, m) \o lit :
                  m \in {m \in 1..(Len(lit) - 1) : lit[m + 1] = rep[1]}}
              \cup {lit \o SubSeq(lit, m, Len(lit)) :
                  m \in {m \in 2..Len(lit) : lit[m - 1] = rep[Len(rep)]}}
           : i \in CfgRules}

InitCfg ==
    \/ \E c \in PairTexts, t \in {ConfigReplacements, Reverse(ConfigReplacements)} :
          Start(t, [f \in {ProcessorTs} |-> c], {ProcessorTs})
    \/ \E c \in EdgeTexts :
          Start(ConfigReplacements, [f \in {ProcessorTs} |-> c], {ProcessorTs})

NextCfg ==
    \/ ReadOk
    \/ ApplyRule
    \/ NoChange
    \/ OpenWriteOk
    \/ WriteOk
    \/ Build
    \/ Rerun

SpecCfg == InitCfg /\ [][NextCfg]_vars

----------------------------------------------------------------------------
(* Vocabulary of the properties *)

\* The rules of the table for file f, in table order.
RulesFor(f) == SelectSeq(replacements, LAMBDA r : r.file = f)

Configured == {replacements[k].file : k \in 1..Len(replacements)}

\* The text a pattern of the small-alphabet rule book stands for.
Literal(pattern) ==
    CHOOSE lit \in SeqsUpTo(Sigma, Len(pattern)) : Escape(lit) = pattern

\* The positions of s where the text lit starts.
Occurrences(lit, s) ==
    LET n == Len(lit)
    IN {i \in 1..(Len(s) - n + 1) :
           n > 0 => (s[i] = lit[1] /\ \A j \in 2..n : s[i + j - 1] = lit[j])}

\* s with the n characters from position i replaced by r.
Spliced(s, i, n, r) == SubSeq(s, 1, i - 1) \o r \o SubSeq(s, i + n, Len(s))

\* apply_replacements has returned for f without an I/O failure.
Finished(f) == report[f].status \in {"changed", "unchanged"}

----------------------------------------------------------------------------
(* C1 *)

\* C1: when the only rule of a file matches the file's text at exactly one
\* place, the file after apply_replacements is the original text with the
\* matched span replaced by the rule's replacement text, and every character
\* before and after the span is as it was.
C1_SingleMatchReplaced ==
    \A f \in DOMAIN disk :
        LET rs == RulesFor(f)
        IN (Len(rs) = 1 /\ Finished(f)) =>
              LET lit == Literal(rs[1].pattern)
                  occ == Occurrences(lit, disk0[f])
              IN Cardinality(occ) = 1 =>
                    \E i \in occ : disk[f] = Spliced(disk0[f], i, Len(lit), rs[1].repl)

\* A file with one rule whose single match lies strictly inside the text
\* has been rewritten.
C1_Witness ==
    \E f \in DOMAIN disk :
        LET rs == RulesFor(f)
        IN /\ Len(rs) = 1
           /\ report[f].status = "changed"
           /\ LET lit == Literal(rs[1].pattern)
                  occ == Occurrences(lit, disk0[f])
              IN /\ Cardinality(occ) = 1
                 /\ \E i \in occ : i > 1 /\ i + Len(lit) - 1 < Len(disk0[f])
                 /\ disk[f] # disk0[f]

----------------------------------------------------------------------------
(* C2 *)

\* C2: a file in whose text no pattern of its rules matches is never opened
\* for writing, holds at every moment the bytes it held before the run, and
\* has zero changes reported.
C2_NoMatchNoWrite ==
    \A f \in Configured :
        LET rs == RulesFor(f)
        IN (\A k \in 1..Len(rs) : Occurrences(Literal(rs[k].pattern), disk0[f]) = {}) =>
              /\ hist[f].writes = 0
              /\ disk[f] = disk0[f]
              /\ report[f].status # "changed"
              /\ report[f].changes = 0
              /\ (pc = "rules" /\ CurFile = f) => changes_made = 0

\* A non-empty file with two rules, none of which matches, has been processed.
C2_Witness ==
    \E f \in Configured :
        LET rs == RulesFor(f)
        IN /\ Len(rs) = 2
           /\ disk0[f] # <<>>
           /\ \A k \in 1..Len(rs) : Occurrences(Literal(rs[k].pattern), disk0[f]) = {}
           /\ report[f].status = "unchanged"
           /\ pc = "done"

----------------------------------------------------------------------------
(* C3 *)

\* C3: a failed read or write is reported as an error for the file it
\* happened on and for no other file, and it does not end the run: until the
\* build has run the script is at a place from which it goes on (a file or
\* a rule left to take, a loop to leave, a write to finish), and when it is
\* done every configured file has been opened and reported on and the build
\* has been invoked.
C3_FailuresDoNotStopRun ==
    /\ \A f \in DOMAIN disk : (report[f].status = "error") <=> hist[f].fault
    /\ (pc # "done") =>
          MoreFiles \/ FilesDone \/ MoreRules \/ (RulesDone /\ changes_made >= 0) \/ Writing
    /\ (pc = "done") =>
          /\ buildCount = 1
          /\ \A f \in Configured : hist[f].reads = 1 /\ report[f].status # "none"

\* The first file failed, the second one was rewritten after it, and the
\* build was invoked.
C3_Witness ==
    /\ pc = "done"
    /\ Len(files_to_process) = 2
    /\ report[files_to_process[1].file].status = "error"
    /\ report[files_to_process[2].file].status = "changed"
    /\ buildCount = 1

----------------------------------------------------------------------------
(* C5 *)

AllProcessed == \A f \in Configured : report[f].status # "none"

\* C5: the build is invoked once per run, not before every configured file
\* has been processed (with or without a failure), and no file changes once
\* the build has been invoked, whatever its outcome.
C5_BuildOnceAfterAllFiles ==
    /\ [](buildCount <= 1)
    /\ []((buildCount = 1) => (AllProcessed /\ pc = "done"))
    /\ []((pc = "done") => (buildCount = 1))
    /\ [][(buildCount >= 1) => (disk' = disk)]_vars

\* The build failed after a file had been rewritten, and the edit is in place.
C5_Witness ==
    /\ pc = "done"
    /\ buildStatus = "failed"
    /\ \E f \in Configured :
          /\ report[f].status = "changed"
          /\ disk[f] = hist[f].buf
          /\ disk[f] # disk0[f]

----------------------------------------------------------------------------
(* C6 *)

\* The number of matches of lit in s as re.findall counts them: from left
\* to right, each search starting where the previous match ended.
RECURSIVE CountMatches(_, _)
CountMatches(lit, s) ==
    LET occ == Occurrences(lit, s)
    IN IF occ = {} \/ lit = <<>> THEN 0
       ELSE LET i == CHOOSE i \in occ : \A j \in occ : i <= j
            IN 1 + CountMatches(lit, SubSeq(s, i + Len(lit), Len(s)))

\* What one attempt of a rule does to the buffer: nothing without a match,
\* else the leftmost match becomes the replacement text and the text after
\* it, with the other matches, stays.
FirstMatchOnly(rule, before, after) ==
    LET lit == Literal(rule.pattern)
        occ == Occurrences(lit, before)
    IN /\ (occ = {}) => (after = before)
       /\ (occ # {}) =>
             \E i \in occ :
                LET rest == SubSeq(before, i + Len(lit), Len(before))
                IN /\ \A j \in occ : i <= j
                   /\ after = SubSeq(before, 1, i - 1) \o rule.repl \o rest
                   /\ CountMatches(lit, rest) = CountMatches(lit, before) - 1

\* C6: each attempt of a rule substitutes at most once, at the leftmost match
\* of its pattern in the current buffer; a file whose only rule matches k > 1
\* times ends with the first match replaced and the text after it, with the
\* other k-1 matches, unchanged.
C6_FirstMatchOnly ==
    /\ [][(MoreRules /\ ruleIdx' = ruleIdx + 1) =>
            FirstMatchOnly(RulesFor(CurFile)[ruleIdx], content, content')]_vars
    /\ [](\A f \in DOMAIN disk :
            (Len(RulesFor(f)) = 1 /\ Finished(f)) =>
                FirstMatchOnly(RulesFor(f)[1], disk0[f], disk[f]))

\* A file whose only rule matched twice has been rewritten, and one match
\* is left in it.
C6_Witness ==
    \E f \in DOMAIN disk :
        LET rs == RulesFor(f)
        IN /\ Len(rs) = 1
           /\ report[f].status = "changed"
           /\ CountMatches(Literal(rs[1].pattern), disk0[f]) = 2
           /\ CountMatches(Literal(rs[1].pattern), disk[f]) = 1

----------------------------------------------------------------------------
(* C7 *)

\* C7 as stated: once the rule loop of a file has ended, the file has been
\* opened for writing if and only if at least one rule's pattern matched the
\* buffer when the rule was attempted.
C7_WritesIffMatched ==
    \A f \in Configured :
        hist[f].looped => ((hist[f].writes > 0) <=> (hist[f].matched > 0))

\* C7, amended: the file is opened for writing if and only if the rule loop
\* has ended and at least one rule matched text different from its
\* replacement; what a successful write leaves in the file is the buffer
\* after all rules have been attempted.
C7_WritesIffChanged ==
    \A f \in Configured :
        /\ (~hist[f].looped) => (hist[f].writes = 0)
        /\ hist[f].looped => ((hist[f].writes = 1) <=> (hist[f].altering > 0))
        /\ (report[f].status = "changed") => (disk[f] = hist[f].buf)
        /\ (report[f].status = "unchanged") => (disk[f] = disk0[f])

\* A file has been rewritten after two rules matched, one of them a rule
\* whose replacement is the text it matched.
C7_Witness ==
    \E f \in Configured :
        /\ report[f].status = "changed"
        /\ hist[f].matched = 2
        /\ hist[f].altering = 1
        /\ disk[f] # disk0[f]

----------------------------------------------------------------------------
(* C8 *)

\* C8 as stated: the count reported for a file is the number of its rules
\* whose pattern matched the buffer when attempted.
C8_CountIsMatches ==
    \A f \in Configured : Finished(f) => (report[f].changes = hist[f].matched)

\* C8, amended: the count reported for a file is the number of its rules
\* that matched text different from their replacement; it lies between 0
\* and the number of rules of the file, and a rule that did not match adds
\* nothing to it.
C8_CountIsChanges ==
    \A f \in Configured :
        /\ Finished(f) =>
              /\ report[f].changes = hist[f].altering
              /\ 0 <= report[f].changes
              /\ report[f].changes <= Len(RulesFor(f))
        /\ (pc \in {"rules", "write"} /\ CurFile = f) =>
              /\ changes_made = hist[f].altering
              /\ changes_made <= ruleIdx - 1
        /\ hist[f].altering <= hist[f].matched

\* One change is reported for a file with two rules, one of which did not
\* match.
C8_Witness ==
    \E f \in Configured :
        /\ report[f].status = "changed"
        /\ report[f].changes = 1
        /\ Len(RulesFor(f)) = 2
        /\ hist[f].matched = 1

----------------------------------------------------------------------------
(* C10 *)

\* The text after every rule of rs has been attempted in turn on s.
RECURSIVE ApplyAll(_, _)
ApplyAll(rs, s) ==
    IF rs = <<>> THEN s
    ELSE ApplyAll(Tail(rs), ReSub(Head(rs).pattern, Head(rs).repl, s))

Prefixes(s) == {SubSeq(s, 1, k) : k \in 0..Len(s)}

\* Each file is opened for reading at most once and exactly once by the end
\* of the run, and for writing at most once, after its rule loop.
OnePass ==
    \A f \in Configured :
        /\ hist[f].reads <= 1
        /\ hist[f].writes <= 1
        /\ (hist[f].writes = 1) => (hist[f].reads = 1 /\ hist[f].looped)
        /\ (pc = "done") => (hist[f].reads = 1)

\* C10 as stated: one pass per file, and at every point of the run the file
\* holds its original content or the content with every matching rule
\* applied.
C10_OriginalOrFinal ==
    /\ OnePass
    /\ \A f \in Configured :
          disk[f] \in {disk0[f], ApplyAll(RulesFor(f), disk0[f])}

\* C10, amended: one pass per file, and at every point of the run the file
\* holds its original content, or the content with every matching rule
\* applied, or a prefix of that content; it holds neither of the first two
\* only between the open for writing and the end of the write, or after a
\* write that failed.
C10_OriginalFinalOrPrefix ==
    /\ OnePass
    /\ \A f \in Configured :
          LET final == ApplyAll(RulesFor(f), disk0[f])
          IN /\ disk[f] \in {disk0[f]} \cup Prefixes(final)
             /\ (disk[f] \notin {disk0[f], final}) =>
                   \/ pc = "write" /\ CurFile = f
                   \/ report[f].status = "error" /\ hist[f].writes = 1

\* A file with two matching rules has been rewritten with both applied.
C10_Witness ==
    \E f \in Configured :
        /\ report[f].status = "changed"
        /\ report[f].changes = 2
        /\ disk[f] = ApplyAll(RulesFor(f), disk0[f])
        /\ disk[f] # disk0[f]
        /\ pc = "done"

----------------------------------------------------------------------------
(* C4 *)

\* The rule at position k of the list of f matched exactly once in text s,
\* and its replacement holds no match of its own pattern.
OnceAndNotInReplacement(f, k, s) ==
    LET rule == RulesFor(f)[k]
        lit == Unescape(rule.pattern)
    IN /\ Occurrences(lit, Expand(rule.repl)) = {}
       /\ Cardinality(Occurrences(lit, s)) = 1

\* C4: every rule of the table whose replacement holds no match of its own
\* pattern, and whose pattern occurred once in the file a run started from,
\* changes nothing in the next run; when this is so of every rule that
\* matched, the next run leaves the file as that run wrote it and opens it
\* for writing no more.
C4_SecondRunChangesNothing ==
    \A f \in DOMAIN disk :
        (run >= 2 /\ pc = "done") =>
            LET ks == 1..Len(RulesFor(f))
                was == prev.disk0[f]
            IN /\ \A k \in ks :
                     OnceAndNotInReplacement(f, k, was) => (k \notin hist[f].changed)
               /\ (\A k \in ks :
                       \/ OnceAndNotInReplacement(f, k, was)
                       \/ Occurrences(Unescape(RulesFor(f)[k].pattern), was) = {}) =>
                     /\ hist[f].changed = {}
                     /\ hist[f].writes = 0
                     /\ disk[f] = prev.disk[f]

\* A second run has ended over a file the first run rewrote, after two
\* rules had each matched once in it.
C4_Witness ==
    \E f \in DOMAIN disk :
        /\ run = 2
        /\ pc = "done"
        /\ prev.report[f].status = "changed"
        /\ prev.report[f].changes = 2
        /\ prev.disk[f] # prev.disk0[f]
        /\ \E k \in 1..Len(RulesFor(f)) : OnceAndNotInReplacement(f, k, prev.disk0[f])
        /\ report[f].status = "unchanged"

----------------------------------------------------------------------------
(* C9 *)

\* The text after the rules of rs have been attempted in turn on s, with
\* the number of them that changed it, added to n.
RECURSIVE Outcome(_, _, _)
Outcome(rs, s, n) ==
    IF rs = <<>> THEN [text |-> s, changes |-> n]
    ELSE LET t == ReSub(Head(rs).pattern, Head(rs).repl, s)
         IN IF t # s THEN Outcome(Tail(rs), t, n + 1) ELSE Outcome(Tail(rs), s, n)

\* C9: the file and the count a run of the table ends with are those of
\* attempting the file's rules one after the other, each on the text the
\* earlier ones left, and they are the same with the rules taken in the
\* opposite order.
C9_OrderDoesNotMatter ==
    \A f \in DOMAIN disk :
        (pc = "done" /\ Finished(f)) =>
            LET got == [text |-> disk[f], changes |-> report[f].changes]
            IN /\ got = Outcome(RulesFor(f), disk0[f], 0)
               /\ got = Outcome(Reverse(RulesFor(f)), disk0[f], 0)

\* A run of the table in reversed order has rewritten a file in which two
\* rules matched.
C9_Witness ==
    \E f \in DOMAIN disk :
        /\ replacements = Reverse(ConfigReplacements)
        /\ report[f].status = "changed"
        /\ report[f].changes = 2
        /\ disk[f] # disk0[f]
        /\ pc = "done"

====
